---- MODULE Spec2Model ----
(***************************************************************************)
(* A model of dspsr_utils (src/__init__.py): the function test_dspsr,      *)
(* which builds a dspsr command, runs it as a child process and parses the *)
(* captured text, and the class dspsrTrials, which sweeps one argument     *)
(* over a list of values and aggregates the results.                       *)
(*                                                                         *)
(* Text.  A captured stream is a sequence of lines (the text split at      *)
(* "\n").  A line is a sequence of segments (the line split at "\r"); a    *)
(* segment is a sequence of tokens (the segment split at white space),     *)
(* tokens being separated by single blanks.  Times are kept in hundredths  *)
(* of a second, so the float -1. is the integer -100.                      *)
(*                                                                         *)
(* Specifications.  Spec is the life of one dspsrTrials object; SpecParse  *)
(* is one call of test_dspsr from communicate() on, line by line;          *)
(* SpecBuild is the part of a call that builds the command.                *)
(***************************************************************************)
EXTENDS Integers, Sequences, FiniteSets, TLC

\* ------------------------------------------------------------------ bounds

\* Longest captured stream, in lines, in the parser's specification.
MaxLines == 3
\* Longest varied_arg_values.
MaxVals == 3
\* Most execute calls that enter the loop on one object.
MaxExec == 2
\* Most child processes run for one object, over all its execute calls.
MaxRuns == 4
\* The values of an argument given to test_dspsr directly: 1..MaxArg.
MaxArg == 2

\* ------------------------------------------------------------------- text

\* float(tok) for the tokens of the model; a token outside is no number.
FloatTable ==
  [t \in {"0.5", "1.5", "2.0", "3.0"} |->
     CASE t = "0.5" -> 50 [] t = "1.5" -> 150 [] t = "2.0" -> 200 [] t = "3.0" -> 300]

IsFloat(tok) == tok \in DOMAIN FloatTable

FloatVal(tok) == FloatTable[tok]

\* unix_time = -1.
NoTime == -100

\* tok ends with the word w.
EndsWith(tok, w) == tok = w \/ <<tok, w>> \in {<<"\"TOTAL", "TOTAL">>}

\* tok starts with the word w.
StartsWith(tok, w) ==
  tok = w \/ <<tok, w>> \in {<<"ELAPSED:", "ELAPSED">>, <<"Error:", "Error">>}

\* The word w occurs inside tok.
InToken(tok, w) == EndsWith(tok, w) \/ StartsWith(tok, w)

\* The marker, a sequence of words separated by single blanks, occurs in the
\* text of the tokens toks, its first word in token i.
MarkerAt(toks, marker, i) ==
  LET n == Len(marker) IN
  /\ i + n - 1 <= Len(toks)
  /\ \A j \in 1..n :
       LET tok == toks[i + j - 1] IN
       IF n = 1 THEN InToken(tok, marker[j])
       ELSE IF j = 1 THEN EndsWith(tok, marker[j])
       ELSE IF j = n THEN StartsWith(tok, marker[j])
       ELSE tok = marker[j]

\* `marker in line` for a line without "\r".
Contains(toks, marker) == \E i \in 1..Len(toks) : MarkerAt(toks, marker, i)

\* The strings test_dspsr and execute search for.
MUnloading == <<"unloading">>
MTimeSpent == <<"Time", "Spent">>
MPrepared == <<"dspsr:", "prepared", "in">>
MUnload == <<"dsp::Archiver::unload", "in">>
MTotal == <<"TOTAL", "WALL", "TIME", "ELAPSED">>
MError == <<"Error">>

\* The lines a captured stream is made of, each a sequence of segments.
LEmpty == << <<>> >>
LBegin == << <<"Operation", "Time", "Spent">> >>
LEnd == << <<"dspsr:", "unloading">> >>
LFold == << <<"Fold", "1.5">> >>
LUnpack == << <<"Unpack", "0.5", "3">> >>
LOneToken == << <<"Fold">> >>
LNotNumber == << <<"Fold", "n/a">> >>
LPrepared == << <<"dspsr:", "prepared", "in", "2.0", "seconds">> >>
LPreparedCut == << <<"dspsr:", "prepared", "in">> >>
LUnload == << <<"dsp::Archiver::unload", "in", "0.5", "seconds">> >>
LTotal == << <<"\"TOTAL", "WALL", "TIME", "ELAPSED:", "3.0", "seconds\"">> >>
LTotalJoined ==
  << <<"Fold", "1.5", "\"TOTAL", "WALL", "TIME", "ELAPSED:", "3.0", "seconds\"">> >>
LError == << <<"Error:", "failed">> >>
LProgress == << <<"Operation", "Time", "Spent">>, <<"Finished">> >>
LProgressFold == << <<"50%">>, <<"Unpack", "2.0">> >>
LProgressEnd == << <<"Fold", "1.5">>, <<>> >>

Lines ==
  { LEmpty, LBegin, LEnd, LFold, LUnpack, LOneToken, LNotNumber, LPrepared,
    LPreparedCut, LUnload, LTotal, LTotalJoined, LError, LProgress, LProgressFold,
    LProgressEnd }

\* Every stream of at most n lines; text.split("\n") has at least one.
Streams(n) == UNION { [1..k -> Lines] : k \in 1..n }

\* ------------------------------------------------------- test_dspsr: parse

\* "\r" in ex_out[ii]
HasCR(line) == Len(line) > 1

\* ex_out[ii].split("\r")[-1]
LastSegment(line) == line[Len(line)]

\* split("\r")[0] for split("\r")[-1].
DropProgressFirst(line) == IF HasCR(line) THEN << line[1] >> ELSE line

\* Lines 102-103: a line with a carriage return is cut to its last segment.
DropProgress(line) == IF HasCR(line) THEN << LastSegment(line) >> ELSE line

\* line.split() of a line of ex_out after lines 101-103.
Split(line) == line[1]

\* times[name] = value
SetTime(t, name, value) ==
  [k \in DOMAIN t \cup {name} |-> IF k = name THEN value ELSE t[k]]

\* The locals of the parse loop before its first line (lines 105-109).
ParseStart == [times |-> <<>>, unix_time |-> NoTime, time_line |-> FALSE, err |-> "none"]

\* An exception leaves the loop; the locals stay as they were.
Raise(st, tl, e) == [st EXCEPT !.time_line = tl, !.err = e]

\* float(split_line[k]) (k counted from 0) with the two ways it raises.
FloatAt(split_line, k) ==
  IF Len(split_line) < k + 1 THEN [err |-> "IndexError", val |-> 0]
  ELSE IF ~IsFloat(split_line[k + 1]) THEN [err |-> "ValueError", val |-> 0]
  ELSE [err |-> "none", val |-> FloatVal(split_line[k + 1])]

\* The stage time stored under the token it was read from.
StageBranchWrongKey(st, tl, tl2, split_line) ==
  LET f == FloatAt(split_line, 1) IN
  IF f.err # "none" THEN Raise(st, tl, f.err)
  ELSE [st EXCEPT !.times = SetTime(st.times, split_line[2], f.val), !.time_line = tl2]

\* Line 116: times[split_line[0]] = float(split_line[1])
StageBranch(st, tl, tl2, split_line) ==
  LET f == FloatAt(split_line, 1) IN
  IF f.err # "none" THEN Raise(st, tl, f.err)
  ELSE [st EXCEPT !.times = SetTime(st.times, split_line[1], f.val), !.time_line = tl2]

\* The preparation time stored under the key of the branch below it.
PreparedBranchWrongKey(st, tl, tl2, split_line) ==
  LET f == FloatAt(split_line, 3) IN
  IF f.err # "none" THEN Raise(st, tl, f.err)
  ELSE [st EXCEPT !.times = SetTime(st.times, "Unloading", f.val), !.time_line = tl2]

\* Line 119: times["Preparation"] = float(split_line[3])
PreparedBranch(st, tl, tl2, split_line) ==
  LET f == FloatAt(split_line, 3) IN
  IF f.err # "none" THEN Raise(st, tl, f.err)
  ELSE [st EXCEPT !.times = SetTime(st.times, "Preparation", f.val), !.time_line = tl2]

\* Line 121: times["Unloading"] = float(split_line[2])
UnloadBranch(st, tl, tl2, split_line) ==
  LET f == FloatAt(split_line, 2) IN
  IF f.err # "none" THEN Raise(st, tl, f.err)
  ELSE [st EXCEPT !.times = SetTime(st.times, "Unloading", f.val), !.time_line = tl2]

\* Line 123: unix_time = float(split_line[4])
TotalBranch(st, tl, tl2, split_line) ==
  LET f == FloatAt(split_line, 4) IN
  IF f.err # "none" THEN Raise(st, tl, f.err)
  ELSE [st EXCEPT !.unix_time = f.val, !.time_line = tl2]

\* Lines 115-123: the if/elif chain on a non-empty line; tl is time_line
\* after line 113 and tl2 its value after line 125.
Branch(st, tl, tl2, split_line) ==
  IF tl THEN StageBranch(st, tl, tl2, split_line)
  ELSE IF Contains(split_line, MPrepared) THEN PreparedBranch(st, tl, tl2, split_line)
  ELSE IF Contains(split_line, MUnload) THEN UnloadBranch(st, tl, tl2, split_line)
  ELSE IF Contains(split_line, MTotal) THEN TotalBranch(st, tl, tl2, split_line)
  ELSE [st EXCEPT !.time_line = tl2]

\* Lines 111-125: one iteration of `for line in ex_out`.
ParseLine(st, line) ==
  LET split_line == Split(line)
      tl == IF Contains(split_line, MUnloading) THEN FALSE ELSE st.time_line
      tl2 == IF Contains(split_line, MTimeSpent) THEN TRUE ELSE tl
  IN IF Len(split_line) = 0 THEN [st EXCEPT !.time_line = tl2]
     ELSE Branch(st, tl, tl2, split_line)

\* Lines 105-125 on the lines ex_out[1..n], stopping at the line that raises.
RECURSIVE ParseUpTo(_, _)
ParseUpTo(lines, n) ==
  IF n = 0 THEN ParseStart
  ELSE LET st == ParseUpTo(lines, n - 1)
       IN IF st.err # "none" THEN st ELSE ParseLine(st, lines[n])

\* Lines 100-103 on a whole stream.
Normalise(stream) == [i \in 1..Len(stream) |-> DropProgress(stream[i])]

\* Line 196: any(["Error" in line for line in out])
HasError(out) == \E i \in 1..Len(out) : Contains(Split(out[i]), MError)

\* -------------------------------------------------- test_dspsr: the command

\* Lines 38-46: the defaults of the arguments the caller left out.
Defaults ==
  [k \in {"F", "T", "cuda", "minram", "freq", "nchan", "bw"} |->
     CASE k = "F" -> 1024 [] k = "T" -> 10 [] k = "cuda" -> 0 [] k = "minram" -> 1
       [] k = "freq" -> 600 [] k = "nchan" -> 16 [] k = "bw" -> 400]

WithDefaults(kwargs) ==
  [k \in DOMAIN kwargs \cup DOMAIN Defaults |->
     IF k \in DOMAIN kwargs THEN kwargs[k] ELSE Defaults[k]]

\* A formatted argument: "%d:D" % v, str(v), "minX%d" % v.
Fmt(pre, v, post) == [pre |-> pre, num |-> v, post |-> post]

\* Lines 56-59 with `if` for `elif`: minX overwrites fftlen.
ArgDictMinXWins(kw) ==
  LET flags == {"-F", "-r", "-cuda", "-T", "-minram"}
                 \cup (IF "D" \in DOMAIN kw THEN {"-D"} ELSE {})
                 \cup (IF "fftlen" \in DOMAIN kw \/ "minX" \in DOMAIN kw THEN {"-x"} ELSE {})
                 \cup (IF "t" \in DOMAIN kw THEN {"-t"} ELSE {})
  IN [f \in flags |->
        CASE f = "-F" -> Fmt("", kw["F"], ":D")
          [] f = "-r" -> Fmt("None", 0, "")
          [] f = "-cuda" -> Fmt("", kw["cuda"], "")
          [] f = "-T" -> Fmt("", kw["T"], "")
          [] f = "-minram" -> Fmt("", kw["minram"], "")
          [] f = "-D" -> Fmt("", kw["D"], "")
          [] f = "-x" -> IF "minX" \in DOMAIN kw THEN Fmt("minX", kw["minX"], "")
                         ELSE Fmt("", kw["fftlen"], "")
          [] f = "-t" -> Fmt("", kw["t"], "")]

\* Lines 48-61: arg_dict; the flag -r carries no value.
ArgDict(kw) ==
  LET flags == {"-F", "-r", "-cuda", "-T", "-minram"}
                 \cup (IF "D" \in DOMAIN kw THEN {"-D"} ELSE {})
                 \cup (IF "fftlen" \in DOMAIN kw \/ "minX" \in DOMAIN kw THEN {"-x"} ELSE {})
                 \cup (IF "t" \in DOMAIN kw THEN {"-t"} ELSE {})
  IN [f \in flags |->
        CASE f = "-F" -> Fmt("", kw["F"], ":D")
          [] f = "-r" -> Fmt("None", 0, "")
          [] f = "-cuda" -> Fmt("", kw["cuda"], "")
          [] f = "-T" -> Fmt("", kw["T"], "")
          [] f = "-minram" -> Fmt("", kw["minram"], "")
          [] f = "-D" -> Fmt("", kw["D"], "")
          [] f = "-x" -> IF "fftlen" \in DOMAIN kw THEN Fmt("", kw["fftlen"], "")
                         ELSE Fmt("minX", kw["minX"], "")
          [] f = "-t" -> Fmt("", kw["t"], "")]

\* A word of the command that is no formatted argument.
Word(w) == [word |-> w]

\* Lines 64-67: each key of arg_dict and, unless it is None, its value; the
\* keys come in the order of the dict, which is some order.
RECURSIVE FlagWords(_, _)
FlagWords(ad, keys) ==
  IF keys = {} THEN <<>>
  ELSE LET k == CHOOSE f \in keys : TRUE
           rest == FlagWords(ad, keys \ {k})
       IN IF ad[k].pre = "None" THEN <<Word(k)>> \o rest
          ELSE <<Word(k), ad[k]>> \o rest

\* Lines 63-67: cmd before the header entries are appended.
Cmd(ad) ==
  <<Word("time"), Word("-f"), Word("TOTAL WALL TIME ELAPSED: %e seconds"), Word("dspsr")>>
    \o FlagWords(ad, DOMAIN ad)

\* Lines 63-90: dspsr_call, the command from "dspsr" on: the flags (a dict,
\* so in no fixed order) and the header entries that depend on the arguments.
DspsrCall(kwargs) ==
  LET kw == WithDefaults(kwargs)
  IN [flags |-> ArgDict(kw),
      header |-> [FREQ |-> kw["freq"], NCHAN |-> kw["nchan"], BW |-> kw["bw"],
                  TSAMP |-> <<kw["nchan"], kw["bw"]>>]]

\* --------------------------------------------------- test_dspsr as a whole

\* The streams as the docstring (lines 30-36) names them: out is what the
\* child wrote on its standard output, err what it wrote on standard error.
CommunicateUnswapped(child) == [ex_out |-> child.stdout, ex_err |-> child.stderr]

\* Line 97: ex_err, ex_out = ex.communicate(); communicate() returns the
\* pair (stdout, stderr).
Communicate(child) == [ex_out |-> child.stderr, ex_err |-> child.stdout]

\* Lines 38-127 once the child has run: the tuple returned, or the exception.
TestDspsr(kwargs, child) ==
  LET c == Communicate(child)
      ex_out_n == Normalise(c.ex_out)
      st == ParseUpTo(ex_out_n, Len(ex_out_n))
  IN [raised |-> st.err, t |-> st.times, ut |-> st.unix_time, out |-> ex_out_n,
      err |-> c.ex_err, dspsr_call |-> DspsrCall(kwargs)]

\* ---------------------------------------------------------------- state

VARIABLES
  \* the dspsrTrials object
  varied_arg, varied_arg_values, fixed_args, executed, all_times, all_utime,
  all_stdout, all_stderr, all_dspsr_calls, good_runs, comment,
  \* execute: where it stands, its loop index (from 1), the child processes
  \* started and not yet waited for; of the method called last: the exception
  \* it raised, what it printed last, and its name
  pc, ii, running, raised, printed, op,
  \* the execute calls that entered the loop, and every child process that
  \* has run, in order: its index, its two streams and the arguments
  \* test_dspsr was called with
  nexec, runs,
  \* the file of save_results and the object from_file returned
  file, restored,
  \* one call of test_dspsr: the child's streams and the locals of the parse
  child, p_pc, ex_out, ex_err, p_i, times, unix_time, time_line,
  \* one call of test_dspsr before the child is started: the arguments, where
  \* the call stands, arg_dict and cmd
  kwargs, b_pc, arg_dict, cmd

objvars ==
  <<varied_arg, varied_arg_values, fixed_args, executed, all_times, all_utime,
    all_stdout, all_stderr, all_dspsr_calls, good_runs, comment>>

ctlvars == <<pc, ii, running, raised, printed, op, nexec, runs>>

parsevars == <<child, p_pc, ex_out, ex_err, p_i, times, unix_time, time_line>>

buildvars == <<kwargs, b_pc, arg_dict, cmd>>

vars == <<objvars, ctlvars, file, restored, parsevars, buildvars>>

\* A child process that wrote nothing, and the values the variables of one
\* test_dspsr call hold while no call is modelled step by step.
NoChild == [stdout |-> <<LEmpty>>, stderr |-> <<LEmpty>>]

ParserIdle ==
  /\ child = NoChild
  /\ p_pc = "idle"
  /\ ex_out = <<>>
  /\ ex_err = <<>>
  /\ p_i = 0
  /\ times = <<>>
  /\ unix_time = NoTime
  /\ time_line = FALSE

\* The same for the part of a call that builds the command.
BuilderIdle ==
  /\ kwargs = <<>>
  /\ b_pc = "idle"
  /\ arg_dict = <<>>
  /\ cmd = <<>>

\* ------------------------------------------------------------ dspsrTrials

\* Lines 152-162: __init__.
Construct(va, vals, fa) ==
  [varied_arg |-> va, varied_arg_values |-> vals, fixed_args |-> fa,
   executed |-> FALSE, all_times |-> <<>>, all_utime |-> <<>>, all_stdout |-> <<>>,
   all_stderr |-> <<>>, all_dspsr_calls |-> <<>>,
   good_runs |-> [i \in 1..Len(vals) |-> FALSE], comment |-> ""]

\* The object as one record: its attributes.
Self ==
  [varied_arg |-> varied_arg, varied_arg_values |-> varied_arg_values,
   fixed_args |-> fixed_args, executed |-> executed, all_times |-> all_times,
   all_utime |-> all_utime, all_stdout |-> all_stdout, all_stderr |-> all_stderr,
   all_dspsr_calls |-> all_dspsr_calls, good_runs |-> good_runs, comment |-> comment]

NoFile == [exists |-> FALSE]
NoObject == [exists |-> FALSE]

\* The values swept: 0, 5, 10, ...
SweepValues(n) == [i \in 1..n |-> 5 * (i - 1)]

\* The fixed arguments a sweep is built with.
FixedArgs == { <<>>, [k \in {"minX", "D"} |-> IF k = "minX" THEN 2 ELSE 7] }

\* The attributes are those of the object o.
IsObject(o) ==
  /\ varied_arg = o.varied_arg
  /\ varied_arg_values = o.varied_arg_values
  /\ fixed_args = o.fixed_args
  /\ executed = o.executed
  /\ all_times = o.all_times
  /\ all_utime = o.all_utime
  /\ all_stdout = o.all_stdout
  /\ all_stderr = o.all_stderr
  /\ all_dspsr_calls = o.all_dspsr_calls
  /\ good_runs = o.good_runs
  /\ comment = o.comment

SweepIdle ==
  /\ IsObject(Construct("D", <<>>, <<>>))
  /\ pc = "idle" /\ ii = 0 /\ running = {} /\ raised = "none" /\ printed = ""
  /\ op = "__init__"
  /\ nexec = 0 /\ runs = <<>>
  /\ file = NoFile /\ restored = NoObject

\* ---------------------------------------------------------------- execute

\* What a child process may write in a sweep.
OGood == [stdout |-> <<LError>>, stderr |-> <<LPrepared, LTotal>>]
OStages == [stdout |-> <<LEmpty>>, stderr |-> <<LPrepared, LBegin, LFold>>]
OError == [stdout |-> <<LEmpty>>, stderr |-> <<LError>>]
OEmpty == [stdout |-> <<LEmpty>>, stderr |-> <<LEmpty>>]
OBroken == [stdout |-> <<LEmpty>>, stderr |-> <<LBegin, LOneToken>>]

SweepChildren == {OGood, OStages, OError, OEmpty, OBroken}

\* Lines 192-194: the arguments of one run.
TestDspsrArgs(fa, va, arg_val) ==
  [k \in DOMAIN fa \cup {va, "print_cmd"} |->
     IF k = "print_cmd" THEN TRUE ELSE IF k = va THEN arg_val ELSE fa[k]]

\* Line 192 without dict(): lines 193-194 write into fixed_args itself.
FixedArgsAliased(fa, test_dspsr_args) == test_dspsr_args

\* Line 192: test_dspsr_args is a new dict, so fixed_args is as it was after
\* lines 193-194 wrote into test_dspsr_args.
FixedArgsAfter(fa, test_dspsr_args) == fa

\* A run without stage times taken for a failed one.
IsGoodRunWithTimes(t, out) == ~HasError(out) /\ DOMAIN t # {}

\* Line 196: the run counts as good.
IsGoodRun(t, out) == ~HasError(out)

\* Lines 197-199: the stage lists exist once a good run has named stages.
KnownTimes(at, t) ==
  IF DOMAIN at = {} THEN [part \in DOMAIN t |-> <<>>] ELSE at

\* Lines 200-201 for the parts in `parts`.
AppendParts(at, t, parts) ==
  [part \in DOMAIN at |-> IF part \in parts THEN Append(at[part], t[part]) ELSE at[part]]

\* Line 201 raises KeyError for a part no list exists for.
UnknownParts(at, t) == DOMAIN t \ DOMAIN KnownTimes(at, t)

\* Line 202 moved out of the test of line 196.
NewUtimeAlways(au, good, ut) == Append(au, ut)

\* Line 202, under the test of line 196.
NewUtime(au, good, ut) == IF good THEN Append(au, ut) ELSE au

\* Line 203 moved out of the test of line 196.
NewGoodRunsAlways(gr, good, i) == [gr EXCEPT ![i] = TRUE]

\* Line 203, under the test of line 196.
NewGoodRuns(gr, good, i) == IF good THEN [gr EXCEPT ![i] = TRUE] ELSE gr

\* Lines 204-206 moved under the test of line 196.
NewLogGoodOnly(log, good, entry) == IF good THEN Append(log, entry) ELSE log

\* Lines 204-206: the three logs, for every run.
NewLog(log, good, entry) == Append(log, entry)

\* Lines 187-188: a second call does nothing but print.
ExecuteAlready ==
  /\ pc = "idle"
  /\ executed
  /\ printed' = "Already executed."
  /\ op' = "execute"
  /\ raised' = "none"
  /\ UNCHANGED <<objvars, pc, ii, running, nexec, runs, file, restored, parsevars, buildvars>>

\* The loop entered whatever the executed flag.
ExecuteBeginAgain ==
  /\ pc = "idle"
  /\ nexec < MaxExec
  /\ Len(runs) + Len(varied_arg_values) <= MaxRuns
  /\ pc' = "loop"
  /\ ii' = 1
  /\ nexec' = nexec + 1
  /\ op' = "execute"
  /\ raised' = "none"
  /\ printed' = ""
  /\ UNCHANGED <<objvars, running, runs, file, restored, parsevars, buildvars>>

\* Lines 189-190: the loop is entered.
ExecuteBegin ==
  /\ pc = "idle"
  /\ ~executed
  /\ nexec < MaxExec
  /\ Len(runs) + Len(varied_arg_values) <= MaxRuns
  /\ pc' = "loop"
  /\ ii' = 1
  /\ nexec' = nexec + 1
  /\ op' = "execute"
  /\ raised' = "none"
  /\ printed' = ""
  /\ UNCHANGED <<objvars, running, runs, file, restored, parsevars, buildvars>>

\* Popen's OSError caught and the value skipped.
SpawnSkipFailure ==
  /\ pc = "loop"
  /\ ii <= Len(varied_arg_values)
  /\ printed' = "Run"
  /\ \/ /\ running' = running \cup {ii}
        /\ pc' = "wait"
        /\ UNCHANGED <<raised, ii>>
     \/ /\ raised' = "OSError"
        /\ pc' = "loop"
        /\ ii' = ii + 1
        /\ UNCHANGED running
  /\ fixed_args' = FixedArgsAfter(fixed_args,
                       TestDspsrArgs(fixed_args, varied_arg, varied_arg_values[ii]))
  /\ UNCHANGED <<varied_arg, varied_arg_values, executed, all_times, all_utime,
                 all_stdout, all_stderr, all_dspsr_calls, good_runs, comment,
                 op, nexec, runs, file, restored, parsevars, buildvars>>

\* Lines 190-96: the next value, its arguments, and the child process started
\* (or not: Popen raises OSError, which leaves execute).
Spawn ==
  /\ pc = "loop"
  /\ ii <= Len(varied_arg_values)
  /\ printed' = "Run"
  /\ \/ /\ running' = running \cup {ii}
        /\ pc' = "wait"
        /\ UNCHANGED raised
     \/ /\ raised' = "OSError"
        /\ pc' = "idle"
        /\ UNCHANGED running
  /\ fixed_args' = FixedArgsAfter(fixed_args,
                       TestDspsrArgs(fixed_args, varied_arg, varied_arg_values[ii]))
  /\ UNCHANGED <<varied_arg, varied_arg_values, executed, all_times, all_utime,
                 all_stdout, all_stderr, all_dspsr_calls, good_runs, comment,
                 ii, op, nexec, runs, file, restored, parsevars, buildvars>>

\* Lines 97-127 and 195: the child has ended and test_dspsr raises.
CollectRaise(c, r) ==
  /\ r.raised # "none"
  /\ raised' = r.raised
  /\ pc' = "idle"
  /\ UNCHANGED <<objvars, ii, printed>>

\* Lines 196-201: a good run names a part no list exists for; the parts met
\* before it in t.keys() (a dict: any of the others) have been appended.
CollectKeyError(c, r) ==
  /\ r.raised = "none"
  /\ IsGoodRun(r.t, r.out)
  /\ UnknownParts(all_times, r.t) # {}
  /\ \E parts \in SUBSET (DOMAIN r.t \cap DOMAIN all_times) :
        all_times' = AppendParts(all_times, r.t, parts)
  /\ raised' = "KeyError"
  /\ pc' = "idle"
  /\ UNCHANGED <<varied_arg, varied_arg_values, fixed_args, executed, all_utime,
                 all_stdout, all_stderr, all_dspsr_calls, good_runs, comment, ii, printed>>

\* Lines 196-207: the run is recorded and the loop goes on.
CollectRecord(c, r) ==
  LET good == IsGoodRun(r.t, r.out) IN
  /\ r.raised = "none"
  /\ good => UnknownParts(all_times, r.t) = {}
  /\ all_times' = IF good THEN AppendParts(KnownTimes(all_times, r.t), r.t, DOMAIN r.t)
                  ELSE all_times
  /\ all_utime' = NewUtime(all_utime, good, r.ut)
  /\ good_runs' = NewGoodRuns(good_runs, good, ii)
  /\ all_stdout' = NewLog(all_stdout, good, r.out)
  /\ all_stderr' = NewLog(all_stderr, good, r.err)
  /\ all_dspsr_calls' = NewLog(all_dspsr_calls, good, r.dspsr_call)
  /\ printed' = "That run took"
  /\ ii' = ii + 1
  /\ pc' = "loop"
  /\ UNCHANGED <<varied_arg, varied_arg_values, fixed_args, executed, comment, raised>>

\* Lines 97-207: communicate() returns with what the child wrote; the text
\* is parsed and the run is recorded, unless an exception leaves execute.
Collect ==
  /\ pc = "wait"
  /\ \E c \in SweepChildren :
       LET test_dspsr_args == TestDspsrArgs(fixed_args, varied_arg, varied_arg_values[ii])
           r == TestDspsr(test_dspsr_args, c)
       IN
       /\ runs' = Append(runs, [ii |-> ii, child |-> c, args |-> test_dspsr_args])
       /\ running' = running \ {ii}
       /\ \/ CollectRaise(c, r)
          \/ CollectKeyError(c, r)
          \/ CollectRecord(c, r)
  /\ UNCHANGED <<op, nexec, file, restored, parsevars, buildvars>>

\* Lines 208-209: the loop is over.
ExecuteEnd ==
  /\ pc = "loop"
  /\ ii > Len(varied_arg_values)
  /\ printed' = "Done."
  /\ executed' = TRUE
  /\ pc' = "idle"
  /\ UNCHANGED <<varied_arg, varied_arg_values, fixed_args, all_times, all_utime,
                 all_stdout, all_stderr, all_dspsr_calls, good_runs, comment,
                 ii, running, raised, op, nexec, runs, file, restored, parsevars, buildvars>>

\* ------------------------------------------ add_comment, save and restore

\* The comments a caller adds.
Comments == {"note"}

\* Lines 211-212.
AddComment ==
  /\ pc = "idle"
  /\ \E c \in Comments : comment' = c
  /\ op' = "add_comment"
  /\ raised' = "none"
  /\ printed' = ""
  /\ UNCHANGED <<varied_arg, varied_arg_values, fixed_args, executed, all_times,
                 all_utime, all_stdout, all_stderr, all_dspsr_calls, good_runs,
                 pc, ii, running, nexec, runs, file, restored, parsevars, buildvars>>

\* Line 223: pickle.dump writes the object's attributes.
Pickle(o) == [exists |-> TRUE, obj |-> o]

\* Lines 214-223.
SaveResults ==
  /\ pc = "idle"
  /\ \/ /\ ~executed
        /\ printed' = "Run execute() method first to get results."
        /\ UNCHANGED file
     \/ /\ executed
        /\ file' = Pickle(Self)
        /\ printed' = ""
  /\ op' = "save_results"
  /\ raised' = "none"
  /\ UNCHANGED <<objvars, pc, ii, running, nexec, runs, restored, parsevars, buildvars>>

\* The comment left out of the attributes copied.
RestoreNoComment(loaded_obj) ==
  [Construct(loaded_obj.varied_arg, loaded_obj.varied_arg_values, loaded_obj.fixed_args)
     EXCEPT !.executed = TRUE,
            !.all_times = loaded_obj.all_times,
            !.all_utime = loaded_obj.all_utime,
            !.all_stdout = loaded_obj.all_stdout,
            !.all_stderr = loaded_obj.all_stderr,
            !.all_dspsr_calls = loaded_obj.all_dspsr_calls,
            !.good_runs = loaded_obj.good_runs]

\* Line 176 left out: executed stays as __init__ set it.
RestoreNotExecuted(loaded_obj) ==
  [Construct(loaded_obj.varied_arg, loaded_obj.varied_arg_values, loaded_obj.fixed_args)
     EXCEPT !.all_times = loaded_obj.all_times,
            !.all_utime = loaded_obj.all_utime,
            !.all_stdout = loaded_obj.all_stdout,
            !.all_stderr = loaded_obj.all_stderr,
            !.all_dspsr_calls = loaded_obj.all_dspsr_calls,
            !.good_runs = loaded_obj.good_runs,
            !.comment = loaded_obj.comment]

\* Lines 175-184: the new object, attribute by attribute.
Restore(loaded_obj) ==
  [Construct(loaded_obj.varied_arg, loaded_obj.varied_arg_values, loaded_obj.fixed_args)
     EXCEPT !.executed = TRUE,
            !.all_times = loaded_obj.all_times,
            !.all_utime = loaded_obj.all_utime,
            !.all_stdout = loaded_obj.all_stdout,
            !.all_stderr = loaded_obj.all_stderr,
            !.all_dspsr_calls = loaded_obj.all_dspsr_calls,
            !.good_runs = loaded_obj.good_runs,
            !.comment = loaded_obj.comment]

\* Lines 164-184; open() raises IOError when there is no file.
FromFile ==
  /\ pc = "idle"
  /\ \/ /\ ~file.exists
        /\ raised' = "IOError"
        /\ UNCHANGED restored
     \/ /\ file.exists
        /\ restored' = [exists |-> TRUE, obj |-> Restore(file.obj)]
        /\ raised' = "none"
  /\ op' = "from_file"
  /\ printed' = ""
  /\ UNCHANGED <<objvars, pc, ii, running, nexec, runs, file, parsevars, buildvars>>

\* Lines 186-188 on the object from_file returned, whose executed is True.
ExecuteRestored ==
  /\ pc = "idle"
  /\ restored.exists
  /\ restored.obj.executed
  /\ printed' = "Already executed."
  /\ op' = "restored.execute"
  /\ raised' = "none"
  /\ UNCHANGED <<objvars, pc, ii, running, nexec, runs, file, restored, parsevars, buildvars>>

\* -------------------------------------------------------- the sweep's life

Init ==
  /\ \E n \in 0..MaxVals, fa \in FixedArgs : IsObject(Construct("D", SweepValues(n), fa))
  /\ pc = "idle" /\ ii = 0 /\ running = {} /\ raised = "none" /\ printed = ""
  /\ op = "__init__"
  /\ nexec = 0 /\ runs = <<>>
  /\ file = NoFile /\ restored = NoObject
  /\ ParserIdle
  /\ BuilderIdle

Next ==
  \/ ExecuteAlready
  \/ ExecuteBegin
  \/ Spawn
  \/ Collect
  \/ ExecuteEnd
  \/ AddComment
  \/ SaveResults
  \/ FromFile
  \/ ExecuteRestored

Spec == Init /\ [][Next]_vars

\* ------------------------------------------------- claims about the sweep

\* The objects there are: the one swept and, once from_file has returned,
\* the one restored.
Objects == {Self} \cup (IF restored.exists THEN {restored.obj} ELSE {})

\* What test_dspsr parsed from the logged output of run i of object o.
TimesOf(o, i) == ParseUpTo(o.all_stdout[i], Len(o.all_stdout[i])).times
WallOf(o, i) == ParseUpTo(o.all_stdout[i], Len(o.all_stdout[i])).unix_time
FailedRun(o, i) == HasError(o.all_stdout[i])

NVals(o) == Len(o.varied_arg_values)
GoodCount(o) == Cardinality({i \in 1..Len(o.good_runs) : o.good_runs[i]})

\* The object was filled by one execute that ran through: executed, and one
\* logged run per value.
CleanSweep(o) == o.executed /\ Len(o.all_stdout) = NVals(o)

Rank(o, i) == Cardinality({j \in 1..i : ~FailedRun(o, j)})

C3_SuccessIsNoErrorLine ==
  /\ nexec <= 1 =>
       \A i \in 1..Len(varied_arg_values) :
          good_runs[i] <=> (i <= Len(all_stdout) /\ ~FailedRun(Self, i))
  /\ \A o \in Objects :
        CleanSweep(o) => \A i \in 1..NVals(o) : o.good_runs[i] <=> ~FailedRun(o, i)

\* An executed sweep with a good run that gave no stage, a good run that
\* gave one, and a failed run.
C3_Witness ==
  /\ CleanSweep(Self)
  /\ \E i, j, k \in 1..Len(varied_arg_values) :
        /\ good_runs[i] /\ DOMAIN TimesOf(Self, i) = {}
        /\ good_runs[j] /\ DOMAIN TimesOf(Self, j) # {}
        /\ ~good_runs[k] /\ FailedRun(Self, k)

\* C4: execute called on an executed sweep starts no child process and
\* changes no attribute, and an executed sweep is never inside the loop.
C4_ExecuteTwice ==
  [][(executed /\ op' = "execute") =>
       /\ UNCHANGED objvars
       /\ runs' = runs
       /\ running' = {}
       /\ pc' = "idle"
       /\ printed' = "Already executed."]_vars

\* A second execute has been called on a sweep with logged runs.
C4_Witness ==
  /\ executed
  /\ op = "execute"
  /\ printed = "Already executed."
  /\ Len(all_stdout) = 3
  /\ nexec = 1

\* C5 as stated: from_file after save_results gives an object equal to the
\* sweep in every attribute, for a sweep not executed as for an executed one.
C5_RoundTripAnySweep ==
  (op = "from_file" /\ (executed => file = Pickle(Self))) =>
     /\ raised = "none"
     /\ restored.exists
     /\ restored.obj = Self

\* C5 amended: for an executed sweep, from_file on the file save_results
\* wrote from it gives an object equal to it in every attribute; a sweep that
\* is not executed has no file written.
C5_RoundTripExecuted ==
  /\ (op = "from_file" /\ executed /\ file = Pickle(Self)) =>
        /\ raised = "none"
        /\ restored.exists
        /\ restored.obj = Self
  /\ ~executed => ~file.exists

\* An executed sweep with a good and a failed run and a comment, restored.
C5_Witness ==
  /\ op = "from_file"
  /\ executed
  /\ file = Pickle(Self)
  /\ restored.exists
  /\ comment = "note"
  /\ \E i, j \in 1..Len(good_runs) : good_runs[i] /\ ~good_runs[j]

\* C10: at most one child runs at a time, and only the one of the current
\* value; the three logs grow together; in a sweep's first execute run k is
\* the run of value k, log entry i is that of run i, whether it failed or
\* not, and once executed there is one entry per value.
C10_SequentialLogging ==
  /\ Cardinality(running) <= 1
  /\ running # {} => (running = {ii} /\ pc = "wait")
  /\ Len(all_stderr) = Len(all_stdout)
  /\ Len(all_dspsr_calls) = Len(all_stdout)
  /\ nexec <= 1 =>
       /\ \A k \in 1..Len(runs) : runs[k].ii = k
       /\ Len(all_stdout) <= Len(runs)
       /\ pc = "wait" => Len(runs) = ii - 1
       /\ \A i \in 1..Len(all_stdout) :
             LET c == runs[i].child IN
             /\ <<all_stdout[i], all_stderr[i]>> \in
                   { <<Normalise(c.stdout), c.stderr>>, <<Normalise(c.stderr), c.stdout>> }
             /\ all_dspsr_calls[i] =
                   DspsrCall(TestDspsrArgs(fixed_args, varied_arg, varied_arg_values[i]))
       /\ executed => (Len(all_stdout) = Len(varied_arg_values)
                        /\ Len(runs) = Len(varied_arg_values))

\* A first execute over three values that ended, with a failed run logged
\* between two good ones.
C10_Witness ==
  /\ executed
  /\ nexec = 1
  /\ Len(all_stdout) = 3
  /\ FailedRun(Self, 2) /\ ~FailedRun(Self, 1) /\ ~FailedRun(Self, 3)
  /\ runs[3].ii = 3

\* C11: when the child of value k cannot be started, that step leaves execute
\* with the error: run k and the runs after it are not made, no attribute of
\* the object changes, and executed is still false.
C11_SpawnFailureAborts ==
  /\ [](raised = "OSError" =>
          /\ pc = "idle"
          /\ op = "execute"
          /\ ~executed
          /\ running = {}
          /\ ii \in 1..Len(varied_arg_values)
          /\ \A k \in 1..Len(runs) : k > Len(runs) - (ii - 1) => runs[k].ii < ii
          /\ nexec = 1 => (Len(runs) = ii - 1 /\ Len(all_stdout) = ii - 1))
  /\ [][(pc = "loop" /\ raised' = "OSError") =>
          /\ pc' = "idle"
          /\ ii' = ii
          /\ runs' = runs
          /\ UNCHANGED objvars]_vars

\* The child of the second value could not be started: one run is logged.
C11_Witness ==
  /\ raised = "OSError"
  /\ ii = 2
  /\ Len(varied_arg_values) = 3
  /\ Len(runs) = 1
  /\ Len(all_stdout) = 1
  /\ ~executed

\* C12: a good run that names a stage no list exists for does not end the
\* sweep, and every stage list has one entry per good run: a sentinel where
\* the run did not report the stage, before or after the stage was first met.
C12_LazyStages ==
  /\ raised # "KeyError"
  /\ \A part \in DOMAIN all_times :
        /\ Len(all_times[part]) = Len(all_utime)
        /\ \A k \in 1..Len(all_times[part]) :
              all_times[part][k] \in {NoTime} \cup { FloatVal(tok) : tok \in DOMAIN FloatTable }

\* C17: whatever execute calls were made, ended or left by an exception, the
\* object holds as many wall times as good_runs has true entries.
C17_UtimeCountsGoodRuns == Len(all_utime) = GoodCount(Self)

\* C18: a save_results call on a sweep that is not executed leaves the file
\* and every attribute as they were, so a file there is holds an executed
\* sweep; an object from_file returned is executed, and an execute call on it
\* starts no child and leaves its attributes, and everything else, as they
\* were.
C18_GuardedSaveAndRestore ==
  /\ [](file.exists => file.obj.executed)
  /\ [](restored.exists => restored.obj.executed)
  /\ [][(op' = "save_results" /\ ~executed) =>
          /\ file' = file
          /\ UNCHANGED <<objvars, restored, running, runs>>]_vars
  /\ [][op' = "restored.execute" =>
          /\ restored' = restored
          /\ running' = running /\ running = {}
          /\ runs' = runs
          /\ pc' = "idle"
          /\ UNCHANGED <<objvars, file>>]_vars

\* An execute call on a restored sweep that holds a good run.
C18_Witness ==
  /\ op = "restored.execute"
  /\ printed = "Already executed."
  /\ restored.exists
  /\ restored.obj.executed
  /\ \E i \in 1..Len(restored.obj.good_runs) : restored.obj.good_runs[i]

\* C19: no step of an execute call changes fixed_args, varied_arg,
\* varied_arg_values or comment, whether the call ends or is left by an
\* exception; the arguments of every run made are the fixed arguments the
\* sweep was built with, the varied argument set to the value of the run's
\* index in place of a fixed one of that name, and print_cmd: nothing of
\* another run's value and no default.
C19_ExecuteFrame ==
  /\ [][op' = "execute" =>
          UNCHANGED <<fixed_args, varied_arg, varied_arg_values, comment>>]_vars
  /\ [](fixed_args \in FixedArgs)
  /\ [](\A k \in 1..Len(runs) :
          LET a == runs[k].args IN
          /\ DOMAIN a = DOMAIN fixed_args \cup {varied_arg, "print_cmd"}
          /\ a[varied_arg] = varied_arg_values[runs[k].ii]
          /\ a["print_cmd"] = TRUE
          /\ \A key \in DOMAIN fixed_args \ {varied_arg, "print_cmd"} :
                a[key] = fixed_args[key])

\* The third run of a sweep whose fixed arguments name the varied argument
\* too, after an execute call left by an exception and one that ended.
C19_Witness ==
  /\ executed
  /\ nexec = 2
  /\ Len(runs) = 3
  /\ varied_arg \in DOMAIN fixed_args
  /\ fixed_args[varied_arg] = 7
  /\ runs[3].args[varied_arg] = 5
  /\ runs[3].args["minX"] = 2

\* ------------------------------------- one call of test_dspsr, step by step

\* What a child process may write: any stream on the descriptor that is
\* parsed, one of two on the other.
ParseChildren ==
  { [stdout |-> o, stderr |-> e] : o \in {<<LEmpty>>, <<LError>>}, e \in Streams(MaxLines) }

InitParse ==
  /\ SweepIdle
  /\ BuilderIdle
  /\ child \in ParseChildren
  /\ p_pc = "spawned"
  /\ ex_out = <<>>
  /\ ex_err = <<>>
  /\ p_i = 0
  /\ times = <<>>
  /\ unix_time = NoTime
  /\ time_line = FALSE

\* Lines 97-109: wait for the child, cut the progress text, set the locals.
PCommunicate ==
  /\ p_pc = "spawned"
  /\ ex_out' = Normalise(Communicate(child).ex_out)
  /\ ex_err' = Communicate(child).ex_err
  /\ times' = ParseStart.times
  /\ unix_time' = ParseStart.unix_time
  /\ time_line' = ParseStart.time_line
  /\ p_i' = 1
  /\ p_pc' = "loop"
  /\ UNCHANGED <<child, objvars, ctlvars, file, restored, buildvars>>

\* The locals of the loop as the record ParseLine works on.
Locals == [times |-> times, unix_time |-> unix_time, time_line |-> time_line, err |-> "none"]

\* Lines 110-125: one line of the loop; an exception ends the call.
PLine ==
  /\ p_pc = "loop"
  /\ p_i <= Len(ex_out)
  /\ LET st == ParseLine(Locals, ex_out[p_i]) IN
       /\ times' = st.times
       /\ unix_time' = st.unix_time
       /\ time_line' = st.time_line
       /\ \/ st.err = "none" /\ p_i' = p_i + 1 /\ p_pc' = "loop"
          \/ st.err # "none" /\ p_i' = p_i /\ p_pc' = st.err
  /\ UNCHANGED <<child, ex_out, ex_err, objvars, ctlvars, file, restored, buildvars>>

\* Line 127: return times, unix_time, ex_out, ex_err, dspsr_call
PReturn ==
  /\ p_pc = "loop"
  /\ p_i > Len(ex_out)
  /\ p_pc' = "returned"
  /\ UNCHANGED <<child, ex_out, ex_err, p_i, times, unix_time, time_line,
                 objvars, ctlvars, file, restored, buildvars>>

NextParse == PCommunicate \/ PLine \/ PReturn

SpecParse == InitParse /\ [][NextParse]_vars

\* ------------------------------------------------- claims about the parse

\* The call has ended in an exception.
PRaised == p_pc \in {"IndexError", "ValueError"}

\* The line of ex_out the loop dealt with last (0: none yet).
LastLine == IF p_pc \in {"loop", "returned"} THEN p_i - 1 ELSE IF PRaised THEN p_i ELSE 0

\* The tokens form a line of the pattern "<marker> <seconds>".
Matches(toks, marker) ==
  \E i \in 1..Len(toks) :
     /\ MarkerAt(toks, marker, i)
     /\ i + Len(marker) <= Len(toks)
     /\ IsFloat(toks[i + Len(marker)])

\* The line is exactly of that pattern: it begins with the marker.
PatternLine(toks, marker) ==
  /\ MarkerAt(toks, marker, 1)
  /\ 1 + Len(marker) <= Len(toks)
  /\ IsFloat(toks[1 + Len(marker)])

\* The seconds such a line gives.
SecondsOf(toks, marker) ==
  LET i == CHOOSE k \in 1..Len(toks) : MarkerAt(toks, marker, k)
  IN FloatVal(toks[i + Len(marker)])

\* Some line of the parsed output contains the marker.
SomeLine(marker) == \E j \in 1..Len(ex_out) : Contains(Split(ex_out[j]), marker)

\* C6: parsing never ends in an error: whatever the lines, the parse step of
\* test_dspsr completes and returns.
C6_ParseNeverRaises == ~PRaised

\* C7: whatever the timing-block flag, a line of the preparation pattern is
\* recorded under "Preparation", a line of the unload pattern under
\* "Unloading", and a TOTAL WALL TIME ELAPSED line sets the wall time.
C7_MarkersUnconditional ==
  LastLine >= 1 =>
    LET toks == Split(ex_out[LastLine]) IN
    /\ PatternLine(toks, MPrepared) =>
         /\ ~PRaised
         /\ "Preparation" \in DOMAIN times
         /\ times["Preparation"] = SecondsOf(toks, MPrepared)
    /\ PatternLine(toks, MUnload) =>
         /\ ~PRaised
         /\ "Unloading" \in DOMAIN times
         /\ times["Unloading"] = SecondsOf(toks, MUnload)
    /\ PatternLine(toks, MTotal) =>
         /\ ~PRaised
         /\ unix_time = SecondsOf(toks, MTotal)

\* The first tokens of the lines dealt with while the flag was true.
RECURSIVE FlagAt(_)
FlagAt(j) ==
  IF j = 0 THEN FALSE
  ELSE LET toks == Split(ex_out[j]) IN
       IF Contains(toks, MTimeSpent) THEN TRUE
       ELSE IF Contains(toks, MUnloading) THEN FALSE
       ELSE FlagAt(j - 1)

\* The flag as line j is dealt with: after line 113.
FlagFor(j) == IF Contains(Split(ex_out[j]), MUnloading) THEN FALSE ELSE FlagAt(j - 1)

BlockNames ==
  { Split(ex_out[j])[1] : j \in { k \in 1..Len(ex_out) : Len(Split(ex_out[k])) > 0 /\ FlagFor(k) } }

\* C8: the wall time returned is -1.0 when no line holds the TOTAL WALL TIME
\* ELAPSED marker and the value of that line otherwise; every key returned is
\* the first token of a line met while the flag was true, or "Preparation" or
\* "Unloading" backed by a line with that marker.
C8_WallTimeAndKeys ==
  p_pc = "returned" =>
    /\ ~SomeLine(MTotal) => unix_time = NoTime
    /\ SomeLine(MTotal) =>
         \E j \in 1..Len(ex_out) :
            /\ Matches(Split(ex_out[j]), MTotal)
            /\ unix_time = SecondsOf(Split(ex_out[j]), MTotal)
    /\ \A k \in DOMAIN times :
         \/ k \in BlockNames
         \/ k = "Preparation" /\ SomeLine(MPrepared)
         \/ k = "Unloading" /\ SomeLine(MUnload)

\* C9: when no line of the output holds the begin marker, the flag is never
\* true, the mapping has no key but "Preparation" and "Unloading", and a call
\* that returns gives each of the two, and the wall time, exactly when a line
\* holds its marker, with the seconds of that line.
C9_NoBeginMarker ==
  ~SomeLine(MTimeSpent) =>
    /\ time_line = FALSE
    /\ DOMAIN times \subseteq {"Preparation", "Unloading"}
    /\ p_pc = "returned" =>
         /\ "Preparation" \in DOMAIN times <=> SomeLine(MPrepared)
         /\ "Unloading" \in DOMAIN times <=> SomeLine(MUnload)
         /\ unix_time # NoTime <=> SomeLine(MTotal)
         /\ \A j \in 1..Len(ex_out) :
              LET toks == Split(ex_out[j]) IN
              /\ (Contains(toks, MPrepared) /\ ~\E k \in (j + 1)..Len(ex_out) :
                    Contains(Split(ex_out[k]), MPrepared))
                   => times["Preparation"] = SecondsOf(toks, MPrepared)
              /\ (Contains(toks, MUnload) /\ ~\E k \in (j + 1)..Len(ex_out) :
                    Contains(Split(ex_out[k]), MUnload))
                   => times["Unloading"] = SecondsOf(toks, MUnload)
              /\ (Contains(toks, MTotal) /\ ~\E k \in (j + 1)..Len(ex_out) :
                    Contains(Split(ex_out[k]), MTotal))
                   => unix_time = SecondsOf(toks, MTotal)

\* A call that returned, on an output without begin marker that holds all
\* three marker lines.
C9_Witness ==
  /\ p_pc = "returned"
  /\ ~SomeLine(MTimeSpent)
  /\ SomeLine(MPrepared) /\ SomeLine(MUnload) /\ SomeLine(MTotal)
  /\ DOMAIN times = {"Preparation", "Unloading"}
  /\ unix_time = 300

\* C13: what is parsed and returned as the output lines is what the child
\* wrote on its standard output, and the error log is what it wrote on its
\* standard error; the result of the parse is a function of the standard
\* output alone.
C13_ParsesStdout ==
  LET c == CommunicateUnswapped(child)
      lines == Normalise(c.ex_out)
  IN p_pc # "spawned" =>
       /\ ex_out = lines
       /\ ex_err = c.ex_err
       /\ p_pc = "returned" =>
             /\ times = ParseUpTo(lines, Len(lines)).times
             /\ unix_time = ParseUpTo(lines, Len(lines)).unix_time

\* The lines of the parsed output that hold the begin marker, and those that
\* hold the end marker.
BeginLines == { j \in 1..Len(ex_out) : Contains(Split(ex_out[j]), MTimeSpent) }
EndLines == { j \in 1..Len(ex_out) : Contains(Split(ex_out[j]), MUnloading) }

\* The non-empty lines among the lines js.
NonEmpty(js) == { j \in js : Len(Split(ex_out[j])) > 0 }

\* C15: the flag is false when the loop starts, true once a line with the
\* begin marker has been dealt with, and false when a line with the end
\* marker is dealt with (and after it, unless the line also begins a block);
\* when a call returns on an output with one begin-marker line b and, after
\* it, one end-marker line e, each non-empty line between the two is recorded
\* as first token -> second token as a number (the last such line of a
\* name), and the mapping holds nothing else from the lines b..e: not the
\* first token of either marker line, only "Preparation" and "Unloading" of
\* marker lines outside.
C15_TimingBlock ==
  /\ (p_pc = "loop" /\ p_i = 1) => time_line = FALSE
  /\ LastLine >= 1 =>
        LET toks == Split(ex_out[LastLine]) IN
        /\ (Contains(toks, MTimeSpent) /\ ~PRaised) => time_line = TRUE
        /\ (Contains(toks, MUnloading) /\ ~Contains(toks, MTimeSpent)) => time_line = FALSE
        /\ (~Contains(toks, MUnloading) /\ ~Contains(toks, MTimeSpent)) =>
              time_line = FlagAt(LastLine - 1)
  /\ (p_pc = "returned" /\ Cardinality(BeginLines) = 1 /\ Cardinality(EndLines) = 1) =>
        LET b == CHOOSE j \in BeginLines : TRUE
            e == CHOOSE j \in EndLines : TRUE
            between == NonEmpty((b + 1)..(e - 1))
            outside == (1..Len(ex_out)) \ (b..e)
        IN b < e =>
             /\ \A j \in between :
                   LET toks == Split(ex_out[j]) IN
                   /\ toks[1] \in DOMAIN times
                   /\ (~\E k \in between : k > j /\ Split(ex_out[k])[1] = toks[1]) =>
                         (Len(toks) >= 2 /\ IsFloat(toks[2]) /\ times[toks[1]] = FloatVal(toks[2]))
             /\ DOMAIN times =
                   { Split(ex_out[j])[1] : j \in between }
                     \cup (IF \E j \in outside : Contains(Split(ex_out[j]), MPrepared)
                           THEN {"Preparation"} ELSE {})
                     \cup (IF \E j \in outside : Contains(Split(ex_out[j]), MUnload)
                           THEN {"Unloading"} ELSE {})
             /\ Split(ex_out[b])[1] \notin DOMAIN times
             /\ Split(ex_out[e])[1] \notin DOMAIN times

\* A call that returned on a begin-marker line, a stage line and an
\* end-marker line.
C15_Witness ==
  /\ p_pc = "returned"
  /\ Len(ex_out) = 3
  /\ BeginLines = {1}
  /\ EndLines = {3}
  /\ DOMAIN times = {"Fold"}
  /\ times["Fold"] = 150
  /\ time_line = FALSE

\* The text communicate() gave for the stream that is parsed, and of each of
\* its lines what follows the last carriage return.
RawOut == Communicate(child).ex_out
LastSegments == [j \in 1..Len(RawOut) |-> << RawOut[j][Len(RawOut[j])] >>]

\* C16: from the first line parsed on, a line of the captured text with a
\* carriage return is its last segment and a line without one is itself;
\* the locals of the parse, the exception or the return, and the output
\* lines returned are those of the text made of the last segments alone.
C16_LastSegmentOnly ==
  p_pc # "spawned" =>
    /\ Len(ex_out) = Len(RawOut)
    /\ \A j \in 1..Len(RawOut) :
          ex_out[j] = IF Len(RawOut[j]) > 1 THEN LastSegments[j] ELSE RawOut[j]
    /\ ex_out = LastSegments
    /\ LET st == ParseUpTo(LastSegments, LastLine) IN
          /\ times = st.times
          /\ unix_time = st.unix_time
          /\ time_line = st.time_line
          /\ PRaised <=> st.err # "none"
          /\ PRaised => p_pc = st.err

\* A call that returned on a progress line with the begin marker before its
\* carriage return, followed by a stage line: no block was entered.
C16_Witness ==
  /\ p_pc = "returned"
  /\ RawOut = <<LProgress, LFold>>
  /\ ex_out[1] = << <<"Finished">> >>
  /\ time_line = FALSE
  /\ times = <<>>

\* ------------------------------- the command of test_dspsr, step by step

\* The arguments a caller gives: any of D, fftlen, minX and t, each with a
\* value of 1..MaxArg.
BuildArgs ==
  UNION { [keys -> 1..MaxArg] : keys \in SUBSET {"D", "fftlen", "minX", "t"} }

InitBuild ==
  /\ SweepIdle
  /\ ParserIdle
  /\ kwargs \in BuildArgs
  /\ b_pc = "called"
  /\ arg_dict = <<>>
  /\ cmd = <<>>

\* Lines 38-46.
BDefaults ==
  /\ b_pc = "called"
  /\ kwargs' = WithDefaults(kwargs)
  /\ b_pc' = "defaults"
  /\ UNCHANGED <<arg_dict, cmd, objvars, ctlvars, file, restored, parsevars>>

\* Lines 48-61.
BArgDict ==
  /\ b_pc = "defaults"
  /\ arg_dict' = ArgDict(kwargs)
  /\ b_pc' = "arg_dict"
  /\ UNCHANGED <<kwargs, cmd, objvars, ctlvars, file, restored, parsevars>>

\* Lines 63-67.
BCmd ==
  /\ b_pc = "arg_dict"
  /\ cmd' = Cmd(arg_dict)
  /\ b_pc' = "cmd"
  /\ UNCHANGED <<kwargs, arg_dict, objvars, ctlvars, file, restored, parsevars>>

NextBuild == BDefaults \/ BArgDict \/ BCmd

SpecBuild == InitBuild /\ [][NextBuild]_vars

\* ----------------------------------------------- claims about the command

\* The places of cmd that hold the flag -x.
XFlags == { i \in 1..Len(cmd) : cmd[i] = Word("-x") }

\* C14: the command holds the flag -x at most once; with fftlen given, with
\* minX or without, the word after it is the length; with minX alone it is
\* "minX" and the multiplier; with neither there is no -x, and in no case
\* does a word of the form minX<n> stand anywhere else.
C14_OneFftFlag ==
  b_pc = "cmd" =>
    /\ Cardinality(XFlags) <= 1
    /\ \A i \in 1..Len(cmd) :
          (i - 1 \notin XFlags /\ "pre" \in DOMAIN cmd[i]) => cmd[i].pre # "minX"
    /\ "fftlen" \in DOMAIN kwargs =>
          \E i \in XFlags : i < Len(cmd) /\ cmd[i + 1] = Fmt("", kwargs["fftlen"], "")
    /\ ("fftlen" \notin DOMAIN kwargs /\ "minX" \in DOMAIN kwargs) =>
          \E i \in XFlags : i < Len(cmd) /\ cmd[i + 1] = Fmt("minX", kwargs["minX"], "")
    /\ ("fftlen" \notin DOMAIN kwargs /\ "minX" \notin DOMAIN kwargs) => XFlags = {}

\* A command built from both fftlen and minX, of different values.
C14_Witness ==
  /\ b_pc = "cmd"
  /\ "fftlen" \in DOMAIN kwargs
  /\ "minX" \in DOMAIN kwargs
  /\ kwargs["fftlen"] # kwargs["minX"]
  /\ XFlags # {}

====
